---- MODULE Spec2Model ----
(***************************************************************************)
(* Mergington High School activities API (src/src/app.py) and the issue    *)
(* seeding script (src/create_issues.py).                                  *)
(*                                                                         *)
(* The store is the SQLite file activities.db: table activities (scanned   *)
(* in rowid order) and table participants, a rowid table with the          *)
(* automatic unique index sqlite_autoindex_participants_1 on               *)
(* (activity_name, email) that PRIMARY KEY(activity_name, email) creates.  *)
(* Every handler opens its own connection.  Python's sqlite3 runs each     *)
(* SELECT on its own and opens a transaction before INSERT / DELETE, which *)
(* ends at conn.commit(); other connections read the committed rows until  *)
(* then, and at most one connection holds the write lock.  A connection    *)
(* that finds the lock taken waits for it (the busy handler): waiting is   *)
(* a disabled action here, the 5 s busy timeout is not modelled.           *)
(***************************************************************************)
EXTENDS Integers, Sequences, FiniteSets, TLC

\* Number of further students who request a Math Club place, one after the
\* other; with the two seeded members they fill its 10 places.
NumCohort == 8

\* Longest issues_data.json list the script is run on.
MaxIssues == 3

----------------------------------------------------------------------------
(* Data of the program *)

\* The seed dictionary, in its iteration (insertion) order.
INITIAL_ACTIVITIES ==
    <<
       [name |-> "Chess Club",
        description |-> "Learn strategies and compete in chess tournaments",
        schedule |-> "Fridays, 3:30 PM - 5:00 PM",
        max_participants |-> 12,
        participants |-> << "michael@mergington.edu", "daniel@mergington.edu" >>],
       [name |-> "Programming Class",
        description |-> "Learn programming fundamentals and build software projects",
        schedule |-> "Tuesdays and Thursdays, 3:30 PM - 4:30 PM",
        max_participants |-> 20,
        participants |-> << "emma@mergington.edu", "sophia@mergington.edu" >>],
       [name |-> "Gym Class",
        description |-> "Physical education and sports activities",
        schedule |-> "Mondays, Wednesdays, Fridays, 2:00 PM - 3:00 PM",
        max_participants |-> 30,
        participants |-> << "john@mergington.edu", "olivia@mergington.edu" >>],
       [name |-> "Soccer Team",
        description |-> "Join the school soccer team and compete in matches",
        schedule |-> "Tuesdays and Thursdays, 4:00 PM - 5:30 PM",
        max_participants |-> 22,
        participants |-> << "liam@mergington.edu", "noah@mergington.edu" >>],
       [name |-> "Basketball Team",
        description |-> "Practice and play basketball with the school team",
        schedule |-> "Wednesdays and Fridays, 3:30 PM - 5:00 PM",
        max_participants |-> 15,
        participants |-> << "ava@mergington.edu", "mia@mergington.edu" >>],
       [name |-> "Art Club",
        description |-> "Explore your creativity through painting and drawing",
        schedule |-> "Thursdays, 3:30 PM - 5:00 PM",
        max_participants |-> 15,
        participants |-> << "amelia@mergington.edu", "harper@mergington.edu" >>],
       [name |-> "Drama Club",
        description |-> "Act, direct, and produce plays and performances",
        schedule |-> "Mondays and Wednesdays, 4:00 PM - 5:30 PM",
        max_participants |-> 20,
        participants |-> << "ella@mergington.edu", "scarlett@mergington.edu" >>],
       [name |-> "Math Club",
        description |-> "Solve challenging problems and participate in math competitions",
        schedule |-> "Tuesdays, 3:30 PM - 4:30 PM",
        max_participants |-> 10,
        participants |-> << "james@mergington.edu", "benjamin@mergington.edu" >>],
       [name |-> "Debate Team",
        description |-> "Develop public speaking and argumentation skills",
        schedule |-> "Fridays, 4:00 PM - 5:30 PM",
        max_participants |-> 12,
        participants |-> << "charlotte@mergington.edu", "henry@mergington.edu" >>]
    >>

\* The emails of the model in ascending order of SQLite's BINARY collation
\* (byte order), the order of the keys of the participants index.
EmailOrder ==
    << "alice@mergington.edu",
       "amelia@mergington.edu",
       "ava@mergington.edu",
       "benjamin@mergington.edu",
       "charlotte@mergington.edu",
       "daniel@mergington.edu",
       "ella@mergington.edu",
       "emma@mergington.edu",
       "harper@mergington.edu",
       "henry@mergington.edu",
       "james@mergington.edu",
       "john@mergington.edu",
       "liam@mergington.edu",
       "mia@mergington.edu",
       "michael@mergington.edu",
       "noah@mergington.edu",
       "olivia@mergington.edu",
       "scarlett@mergington.edu",
       "sophia@mergington.edu",
       "student1@mergington.edu",
       "student2@mergington.edu",
       "student3@mergington.edu",
       "student4@mergington.edu",
       "student5@mergington.edu",
       "student6@mergington.edu",
       "student7@mergington.edu",
       "student8@mergington.edu",
       "student9@mergington.edu" >>

\* The students who ask for a Math Club place one after the other, in the
\* order in which they ask; the first NumCohort of them take part.
Cohort ==
    << "student1@mergington.edu", "student2@mergington.edu",
       "student3@mergington.edu", "student4@mergington.edu",
       "student5@mergington.edu", "student6@mergington.edu",
       "student7@mergington.edu", "student8@mergington.edu",
       "student9@mergington.edu" >>

CohortActivity == "Math Club"

\* Path and query parameters of the other requests, one request at a time:
\* an email no roster holds at first, for two seeded activities, and an
\* email the seed registers for Math Club; each also with a name no
\* activity has.
SerialTargets ==
    { <<"Math Club", "alice@mergington.edu">>,
      <<"Math Club", "james@mergington.edu">>,
      <<"Chess Club", "alice@mergington.edu">>,
      <<"Knitting Club", "alice@mergington.edu">>,
      <<"Knitting Club", "james@mergington.edu">> }

\* The same for requests served concurrently.
ConcurrentTargets ==
    { <<"Math Club", "alice@mergington.edu">>,
      <<"Knitting Club", "alice@mergington.edu">> }

\* The requests in flight: the worker threads that run the handlers.
Procs == {"p1", "p2"}

NoProc == "none"

Rank(email) == CHOOSE i \in 1..Len(EmailOrder) : EmailOrder[i] = email

----------------------------------------------------------------------------
(* State *)

VARIABLES
    activities,        \* table activities: its rows in rowid order
    participants,      \* table participants: its committed rows in rowid order
    writer,            \* the connection holding the write lock, or NoProc
    pc,                \* per request: the statement its handler runs next
    req,               \* per request: operation, activity_name, email
    max_participants,  \* per request: the handler's local of that name
    result,            \* per request: the HTTP response
    listing,           \* per request: the body get_activities returns
    before,            \* history: the tables when the current call began
    lastUnregistered,  \* history: the previous call, if a successful unregister
    args,              \* create_issues.py: the parsed command line
    issues,            \* create_issues.py: the loaded list of records
    ipc,               \* create_issues.py: position in main
    i,                 \* create_issues.py: index of the loop of main
    created_issues,    \* create_issues.py: list of main
    failed_issues,     \* create_issues.py: list of main
    calls,             \* create_issues.py: the POSTs sent, in order
    exit_status        \* create_issues.py: exit status of the process, -1 while it runs

storeVars == <<activities, participants, writer>>
handlerVars == <<pc, req, max_participants, result, listing>>
historyVars == <<before, lastUnregistered>>
appVars == <<storeVars, handlerVars, historyVars>>
scriptVars == <<args, issues, ipc, i, created_issues, failed_issues, calls, exit_status>>
vars == <<appVars, scriptVars>>

----------------------------------------------------------------------------
(* The store: src/src/app.py, init_db and the statements of the handlers *)

Row(activity_name, email) == [activity_name |-> activity_name, email |-> email]

RECURSIVE SeedRows(_, _)
\* The participants rows init_db inserts for the seed entries from k on,
\* in the order of its nested loops.
SeedRows(entries, k) ==
    IF k > Len(entries) THEN <<>>
    ELSE [j \in 1..Len(entries[k].participants) |->
              Row(entries[k].name, entries[k].participants[j])]
         \o SeedRows(entries, k + 1)

\* init_db on a database file: the tables are seeded only if activities is empty.
init_db(db) ==
    IF Len(db.activities) = 0
    THEN [activities |->
              [k \in 1..Len(INITIAL_ACTIVITIES) |->
                  [name |-> INITIAL_ACTIVITIES[k].name,
                   description |-> INITIAL_ACTIVITIES[k].description,
                   schedule |-> INITIAL_ACTIVITIES[k].schedule,
                   max_participants |-> INITIAL_ACTIVITIES[k].max_participants]],
          participants |-> db.participants \o SeedRows(INITIAL_ACTIVITIES, 1)]
    ELSE db

\* A database file that does not exist yet: both tables are created empty.
EmptyDb == [activities |-> <<>>, participants |-> <<>>]

\* SELECT ... FROM activities WHERE name = ?  (the rows found)
SelectActivity(name) == SelectSeq(activities, LAMBDA r : r.name = name)

\* SELECT 1 FROM participants WHERE activity_name = ? AND email = ?  (a row is found)
IsRegistered(name, email) ==
    \E k \in 1..Len(participants) : participants[k] = Row(name, email)

\* SELECT COUNT(*) FROM participants WHERE activity_name = ?
CountParticipants(name) ==
    Len(SelectSeq(participants, LAMBDA r : r.activity_name = name))

\* Mutant: the table is declared without its primary key.
NoUniqueConstraint(name, email) == FALSE

\* PRIMARY KEY(activity_name, email): the INSERT of a key the table holds fails.
UniqueConstraintFailed(name, email) == IsRegistered(name, email)

\* Mutant: the DELETE leaves activity_name out of its WHERE clause.
DeleteRowsByEmail(name, email) ==
    SelectSeq(participants, LAMBDA r : r.email # email)

\* The rows left by DELETE FROM participants WHERE activity_name = ? AND email = ?
DeleteRows(name, email) ==
    SelectSeq(participants, LAMBDA r : ~(r.activity_name = name /\ r.email = email))

\* Mutant: the query is answered by a scan of the table in rowid order.
SelectEmailsByRowid(name) ==
    LET rows == SelectSeq(participants, LAMBDA r : r.activity_name = name)
    IN [k \in 1..Len(rows) |-> rows[k].email]

\* SELECT email FROM participants WHERE activity_name = ?, which SQLite
\* answers from the covering index on (activity_name, email): the emails of
\* the activity come out in key order, not in rowid order.
SelectEmails(name) ==
    SelectSeq(EmailOrder, LAMBDA e : IsRegistered(name, e))

\* Mutant: the comparison is strict.
AtCapacityStrict(count, maximum) == count > maximum

\* The comparison of line 178.
AtCapacity(count, maximum) == count >= maximum

----------------------------------------------------------------------------
(* HTTP responses *)

NoResponse == [status_code |-> 0, detail |-> "", message |-> <<>>]

HTTPException(status_code, detail) ==
    [status_code |-> status_code, detail |-> detail, message |-> <<>>]

\* An exception no handler catches: the framework answers 500.
InternalServerError(exception) ==
    [status_code |-> 500, detail |-> exception, message |-> <<>>]

Message(text) == [status_code |-> 200, detail |-> "", message |-> text]

NoRequest == [op |-> "none", activity_name |-> "", email |-> ""]

----------------------------------------------------------------------------
(* The handlers of src/src/app.py, one action per statement on the store *)

Goto(p, label) == pc' = [pc EXCEPT ![p] = label]

\* The handler ends: it returns a body or an exception leaves it.
Respond(p, response) ==
    /\ result' = [result EXCEPT ![p] = response]
    /\ pc' = [pc EXCEPT ![p] = "done"]

\* signup_for_activity: the SELECT on activities and the 404.
signup_select(p) ==
    /\ pc[p] = "signup_select"
    /\ LET rows == SelectActivity(req[p].activity_name) IN
         IF rows = <<>>
         THEN /\ Respond(p, HTTPException(404, "Activity not found"))
              /\ UNCHANGED max_participants
         ELSE /\ max_participants' =
                     [max_participants EXCEPT ![p] = rows[1].max_participants]
              /\ Goto(p, "signup_registered")
              /\ UNCHANGED result
    /\ UNCHANGED <<storeVars, req, listing, historyVars, scriptVars>>

\* Mutant: the already-signed-up check is left out.
signup_registered_skipped(p) ==
    /\ pc[p] = "signup_registered"
    /\ Goto(p, "signup_count")
    /\ UNCHANGED <<storeVars, req, max_participants, result, listing, historyVars, scriptVars>>

\* signup_for_activity: "Check already signed up".
signup_registered(p) ==
    /\ pc[p] = "signup_registered"
    /\ IF IsRegistered(req[p].activity_name, req[p].email)
       THEN Respond(p, HTTPException(400, "Student is already signed up"))
       ELSE Goto(p, "signup_count") /\ UNCHANGED result
    /\ UNCHANGED <<storeVars, req, max_participants, listing, historyVars, scriptVars>>

\* Mutant: the row is inserted and committed before the capacity check.
signup_count_after_insert(p) ==
    /\ pc[p] = "signup_count"
    /\ writer = NoProc
    /\ LET count == CountParticipants(req[p].activity_name) IN
         IF AtCapacity(count, max_participants[p])
         THEN /\ participants' =
                     Append(participants, Row(req[p].activity_name, req[p].email))
              /\ Respond(p, HTTPException(400, "Activity is full"))
         ELSE Goto(p, "signup_insert") /\ UNCHANGED <<result, participants>>
    /\ UNCHANGED <<activities, writer, req, max_participants, listing, historyVars, scriptVars>>

\* signup_for_activity: "Enforce capacity".
signup_count(p) ==
    /\ pc[p] = "signup_count"
    /\ LET count == CountParticipants(req[p].activity_name) IN
         IF AtCapacity(count, max_participants[p])
         THEN Respond(p, HTTPException(400, "Activity is full"))
         ELSE Goto(p, "signup_insert") /\ UNCHANGED result
    /\ UNCHANGED <<storeVars, req, max_participants, listing, historyVars, scriptVars>>

\* signup_for_activity: the INSERT, which opens the write transaction.  On
\* a key the table holds it raises sqlite3.IntegrityError, which the handler
\* does not catch: the connection is dropped, its transaction rolled back.
signup_insert(p) ==
    /\ pc[p] = "signup_insert"
    /\ writer = NoProc
    /\ IF UniqueConstraintFailed(req[p].activity_name, req[p].email)
       THEN /\ Respond(p, InternalServerError("sqlite3.IntegrityError"))
            /\ UNCHANGED writer
       ELSE /\ writer' = p
            /\ Goto(p, "signup_commit")
            /\ UNCHANGED result
    /\ UNCHANGED <<activities, participants, req, max_participants,
                   listing, historyVars, scriptVars>>

\* Mutant: the connection is closed without conn.commit().
signup_commit_missing(p) ==
    /\ pc[p] = "signup_commit"
    /\ writer = p
    /\ writer' = NoProc
    /\ Respond(p, Message(<<"Signed up", req[p].email, "for", req[p].activity_name>>))
    /\ UNCHANGED <<activities, participants, req, max_participants, listing,
                   historyVars, scriptVars>>

\* signup_for_activity: conn.commit(), conn.close() and the return.
signup_commit(p) ==
    /\ pc[p] = "signup_commit"
    /\ writer = p
    /\ participants' =
           Append(participants, Row(req[p].activity_name, req[p].email))
    /\ writer' = NoProc
    /\ Respond(p, Message(<<"Signed up", req[p].email, "for", req[p].activity_name>>))
    /\ UNCHANGED <<activities, req, max_participants, listing, historyVars, scriptVars>>

\* unregister_from_activity: "Validate activity exists".
unregister_select(p) ==
    /\ pc[p] = "unregister_select"
    /\ IF SelectActivity(req[p].activity_name) = <<>>
       THEN Respond(p, HTTPException(404, "Activity not found"))
       ELSE Goto(p, "unregister_registered") /\ UNCHANGED result
    /\ UNCHANGED <<storeVars, req, max_participants, listing, historyVars, scriptVars>>

\* unregister_from_activity: the SELECT on participants and the 400.
unregister_registered(p) ==
    /\ pc[p] = "unregister_registered"
    /\ IF ~IsRegistered(req[p].activity_name, req[p].email)
       THEN Respond(p, HTTPException(400, "Student is not signed up for this activity"))
       ELSE Goto(p, "unregister_delete") /\ UNCHANGED result
    /\ UNCHANGED <<storeVars, req, max_participants, listing, historyVars, scriptVars>>

\* unregister_from_activity: the DELETE, which opens the write transaction.
unregister_delete(p) ==
    /\ pc[p] = "unregister_delete"
    /\ writer = NoProc
    /\ writer' = p
    /\ Goto(p, "unregister_commit")
    /\ UNCHANGED <<activities, participants, req, max_participants, result,
                   listing, historyVars, scriptVars>>

\* unregister_from_activity: conn.commit(), conn.close() and the return.
unregister_commit(p) ==
    /\ pc[p] = "unregister_commit"
    /\ writer = p
    /\ participants' = DeleteRows(req[p].activity_name, req[p].email)
    /\ writer' = NoProc
    /\ Respond(p, Message(<<"Unregistered", req[p].email, "from", req[p].activity_name>>))
    /\ UNCHANGED <<activities, req, max_participants, listing, historyVars, scriptVars>>

\* build_activity_dict: every activities row with the emails of its roster.
build_activity_dict ==
    [name \in {activities[k].name : k \in 1..Len(activities)} |->
        LET row == SelectActivity(name)[1] IN
          [description |-> row.description,
           schedule |-> row.schedule,
           max_participants |-> row.max_participants,
           participants |-> SelectEmails(name)]]

\* get_activities, with no other request in flight.
get_activities(p) ==
    /\ pc[p] = "get_activities"
    /\ listing' = [listing EXCEPT ![p] = build_activity_dict]
    /\ Respond(p, Message(<<>>))
    /\ UNCHANGED <<storeVars, req, max_participants, historyVars, scriptVars>>

----------------------------------------------------------------------------
(* Requests *)

\* The cohort students who may ask for their place now: each asks once
\* those before it hold theirs.
CohortNext ==
    {Cohort[k] : k \in {j \in 1..NumCohort :
        /\ ~IsRegistered(CohortActivity, Cohort[j])
        /\ \A h \in 1..(j - 1) : IsRegistered(CohortActivity, Cohort[h])}}

Requests(targets) ==
    {[op |-> o, activity_name |-> t[1], email |-> t[2]] :
         o \in {"signup", "unregister"}, t \in targets}
    \cup {[op |-> "signup", activity_name |-> CohortActivity, email |-> e] : e \in CohortNext}

ListRequest == [op |-> "list", activity_name |-> "", email |-> ""]

NoRow == Row("", "")

\* The framework routes request r to its handler on worker p.
Dispatch(p, r) ==
    /\ pc[p] \in {"idle", "done"}
    /\ req' = [req EXCEPT ![p] = r]
    /\ pc' = [pc EXCEPT ![p] =
                 CASE r.op = "signup" -> "signup_select"
                   [] r.op = "unregister" -> "unregister_select"
                   [] OTHER -> "get_activities"]
    /\ result' = [result EXCEPT ![p] = NoResponse]
    /\ listing' = [listing EXCEPT ![p] = <<>>]
    /\ max_participants' = [max_participants EXCEPT ![p] = 0]
    /\ UNCHANGED <<storeVars, scriptVars>>

\* A request that arrives whatever the other worker is doing.
ConcurrentCall(p) ==
    /\ \E r \in Requests(ConcurrentTargets) : Dispatch(p, r)
    /\ UNCHANGED historyVars

\* A client that sends its next request once it has the answer to the last.
SerialCall(p) ==
    /\ \E r \in Requests(SerialTargets) \cup {ListRequest} : Dispatch(p, r)
    /\ before' = [activities |-> activities, participants |-> participants]
    /\ lastUnregistered' =
           IF pc[p] = "done" /\ req[p].op = "unregister" /\ result[p].status_code = 200
           THEN Row(req[p].activity_name, req[p].email)
           ELSE NoRow

Handler(p) ==
    \/ signup_select(p)
    \/ signup_registered(p)
    \/ signup_count(p)
    \/ signup_insert(p)
    \/ signup_commit(p)
    \/ unregister_select(p)
    \/ unregister_registered(p)
    \/ unregister_delete(p)
    \/ unregister_commit(p)

SerialClient == "p1"

----------------------------------------------------------------------------
(* src/create_issues.py *)

\* Python's None, as create_github_issue returns it.
None == [none |-> TRUE]

\* Truth value of what create_github_issue returns: None is false, the
\* non-empty dictionary of a created issue is true.
Truthy(value) == value # None

Titles == {"Add tests", "Fix signup"}

IssueRecords == {[title |-> t, body |-> "body", labels |-> <<"enhancement">>] : t \in Titles}

\* The lists issues_data.json may hold.
IssueLists == UNION {[1..n -> IssueRecords] : n \in 0..MaxIssues}

\* Status codes the remote API answers a POST with.
StatusCodes == {200, 201, 403, 422}

\* The remote API's answer to the POST of data: the created issue with 201.
Response(status_code, data, number) ==
    [status_code |-> status_code,
     json |-> IF status_code = 201
              THEN [number |-> number, title |-> data.title]
              ELSE [message |-> "error"]]

\* create_github_issue, given the response to its POST.
create_github_issue(response) ==
    IF response.status_code = 201 THEN response.json ELSE None

\* The process ends with status at position label of main.
Exit(status, label) ==
    /\ exit_status' = status
    /\ ipc' = label

\* main: parser.parse_args().
parse_args ==
    /\ ipc = "parse_args"
    /\ args' \in [dry_run : BOOLEAN, token : BOOLEAN, repo : BOOLEAN]
    /\ ipc' = "validate"
    /\ UNCHANGED <<issues, i, created_issues, failed_issues, calls, exit_status, appVars>>

\* main: "Validate arguments".
validate_arguments ==
    /\ ipc = "validate"
    /\ IF ~args.dry_run /\ ~args.token THEN Exit(1, "exit_no_token")
       ELSE IF ~args.repo THEN Exit(1, "exit_no_repo")
       ELSE ipc' = "load_issues_data" /\ UNCHANGED exit_status
    /\ UNCHANGED <<args, issues, i, created_issues, failed_issues, calls, appVars>>

\* load_issues_data: the file is missing or is not JSON, or its list is loaded.
load_issues_data ==
    /\ ipc = "load_issues_data"
    /\ \/ Exit(1, "exit_not_loaded") /\ UNCHANGED issues
       \/ /\ issues' \in IssueLists
          /\ ipc' = IF args.dry_run THEN "dry_run" ELSE "create"
          /\ UNCHANGED exit_status
    /\ UNCHANGED <<args, i, created_issues, failed_issues, calls, appVars>>

\* main: the preview, which prints the issues and returns.
dry_run ==
    /\ ipc = "dry_run"
    /\ Exit(0, "return_dry_run")
    /\ UNCHANGED <<args, issues, i, created_issues, failed_issues, calls, appVars>>

\* Mutant: the loop is left at the first record that fails.
create_issue_break ==
    /\ ipc = "create"
    /\ i < Len(issues)
    /\ \E status_code \in StatusCodes :
         LET issue_data == issues[i + 1]
             data == [title |-> issue_data.title, body |-> issue_data.body,
                      labels |-> issue_data.labels]
             response == Response(status_code, data, Len(created_issues) + 1)
             call == [data |-> data, status_code |-> status_code]
             returned == create_github_issue(response)
         IN /\ calls' = Append(calls, call)
            /\ IF Truthy(returned)
               THEN /\ created_issues' = Append(created_issues, returned)
                    /\ i' = i + 1
                    /\ UNCHANGED failed_issues
               ELSE /\ failed_issues' = Append(failed_issues, issue_data.title)
                    /\ i' = Len(issues)
                    /\ UNCHANGED created_issues
    /\ UNCHANGED <<args, issues, ipc, exit_status, appVars>>

\* main: one iteration of "Create issues".
create_issue ==
    /\ ipc = "create"
    /\ i < Len(issues)
    /\ \E status_code \in StatusCodes :
         LET issue_data == issues[i + 1]
             data == [title |-> issue_data.title, body |-> issue_data.body,
                      labels |-> issue_data.labels]
             response == Response(status_code, data, Len(created_issues) + 1)
             call == [data |-> data, status_code |-> status_code]
             returned == create_github_issue(response)
         IN /\ calls' = Append(calls, call)
            /\ IF Truthy(returned)
               THEN /\ created_issues' = Append(created_issues, returned)
                    /\ UNCHANGED failed_issues
               ELSE /\ failed_issues' = Append(failed_issues, issue_data.title)
                    /\ UNCHANGED created_issues
    /\ i' = i + 1
    /\ UNCHANGED <<args, issues, ipc, exit_status, appVars>>

\* main: "Summary" and the exit status.
summary ==
    /\ ipc = "create"
    /\ i = Len(issues)
    /\ IF failed_issues # <<>> THEN Exit(1, "exit_failed") ELSE Exit(0, "return")
    /\ UNCHANGED <<args, issues, i, created_issues, failed_issues, calls, appVars>>

InitApp ==
    /\ activities = init_db(EmptyDb).activities
    /\ participants = init_db(EmptyDb).participants
    /\ writer = NoProc
    /\ pc = [p \in Procs |-> "idle"]
    /\ req = [p \in Procs |-> NoRequest]
    /\ max_participants = [p \in Procs |-> 0]
    /\ result = [p \in Procs |-> NoResponse]
    /\ listing = [p \in Procs |-> <<>>]
    /\ before = [activities |-> init_db(EmptyDb).activities,
                 participants |-> init_db(EmptyDb).participants]
    /\ lastUnregistered = NoRow

InitScript ==
    /\ args = [dry_run |-> FALSE, token |-> FALSE, repo |-> FALSE]
    /\ issues = <<>>
    /\ ipc = "parse_args"
    /\ i = 0
    /\ created_issues = <<>>
    /\ failed_issues = <<>>
    /\ calls = <<>>
    /\ exit_status = -1

Init == InitApp /\ InitScript

\* Requests served concurrently by the worker threads.
Next == \E p \in Procs : ConcurrentCall(p) \/ Handler(p)

Spec == Init /\ [][Next]_vars

\* One request at a time.
SerialNext ==
    \/ SerialCall(SerialClient)
    \/ Handler(SerialClient)
    \/ get_activities(SerialClient)

SpecSerial == Init /\ [][SerialNext]_vars

\* One run of create_issues.py.
ScriptNext ==
    \/ parse_args
    \/ validate_arguments
    \/ load_issues_data
    \/ dry_run
    \/ create_issue
    \/ summary

SpecScript == Init /\ [][ScriptNext]_vars

----------------------------------------------------------------------------
(* Properties *)

\* The emails table tbl registers for activity name, and their number.
Roster(tbl, name) ==
    {tbl[k].email : k \in {j \in 1..Len(tbl) : tbl[j].activity_name = name}}

RosterCount(tbl, name) ==
    Cardinality({k \in 1..Len(tbl) : tbl[k].activity_name = name})

\* The activity names of table acts, and the requested names besides.
Names(acts) == {acts[k].name : k \in 1..Len(acts)}

AllNames == Names(activities) \cup Names(before.activities) \cup {"Knitting Club"}

\* max_participants of activity name in table acts.
MaxOf(acts, name) ==
    acts[CHOOSE k \in 1..Len(acts) : acts[k].name = name].max_participants

\* The serial client has the answer to a call of op.
Answered(op) ==
    /\ pc[SerialClient] = "done"
    /\ req[SerialClient].op = op

TheName == req[SerialClient].activity_name

TheEmail == req[SerialClient].email

TheResult == result[SerialClient]

\* C1: whatever the interleaving of concurrent signUp and unregister
\* requests, no activity has more committed registrations than its
\* max_participants.
C1_CapacityNeverExceeded ==
    \A k \in 1..Len(activities) :
        RosterCount(participants, activities[k].name) <= activities[k].max_participants

\* C2 (I2, one request at a time): from the seeded store, after any sequence
\* of signUp and unregister calls that each run to completion, the count of
\* registrations of every activity is at most its max_participants.
C2_SerialCapacity ==
    \A k \in 1..Len(activities) :
        CountParticipants(activities[k].name) <= activities[k].max_participants

\* C2 witness: a roster at its capacity has turned a signUp away.
C2_Witness ==
    /\ Answered("signup")
    /\ TheResult = HTTPException(400, "Activity is full")
    /\ CountParticipants(TheName) = MaxOf(activities, TheName)

\* C3 (I1): in every state reached by concurrent requests, no
\* (activity_name, email) pair is in the participants table twice.
C3_PairAtMostOnce ==
    \A j, k \in 1..Len(participants) :
        participants[j] = participants[k] => j = k

\* C3 witness: two signUps of one pair both passed the already-registered
\* check; one committed its row and the other's INSERT was refused.
C3_Witness ==
    \E p, q \in Procs :
        /\ p # q
        /\ pc[p] = "done" /\ pc[q] = "done"
        /\ req[p].op = "signup" /\ req[q] = req[p]
        /\ result[p].status_code = 200
        /\ result[q] = InternalServerError("sqlite3.IntegrityError")
        /\ IsRegistered(req[p].activity_name, req[p].email)

\* C4: every answer to a signUp or unregister is a confirmation, a 404
\* NotFound, or a 400 AlreadyRegistered, Full or NotRegistered.
C4_OnlyTheFourErrorKinds ==
    \A p \in Procs :
        pc[p] = "done" =>
            \/ result[p].status_code = 200
            \/ result[p] = HTTPException(404, "Activity not found")
            \/ result[p] = HTTPException(400, "Student is already signed up")
            \/ result[p] = HTTPException(400, "Activity is full")
            \/ result[p] = HTTPException(400, "Student is not signed up for this activity")

\* The case of C5: the activity exists, has a free place, and the email is
\* not on its roster when the signUp begins.
C5_Case ==
    /\ Answered("signup")
    /\ TheName \in Names(before.activities)
    /\ RosterCount(before.participants, TheName) < MaxOf(before.activities, TheName)
    /\ TheEmail \notin Roster(before.participants, TheName)

\* C5: a signUp of a new email for an activity with a free place succeeds;
\* afterwards the roster of the activity is the previous one plus the email
\* (one more registration), and the other rosters and the activity rows
\* are as before.
C5_SignupAddsOne ==
    C5_Case =>
        /\ TheResult = Message(<<"Signed up", TheEmail, "for", TheName>>)
        /\ Roster(participants, TheName) =
               Roster(before.participants, TheName) \cup {TheEmail}
        /\ RosterCount(participants, TheName) =
               RosterCount(before.participants, TheName) + 1
        /\ \A name \in AllNames \ {TheName} :
               /\ Roster(participants, name) = Roster(before.participants, name)
               /\ RosterCount(participants, name) = RosterCount(before.participants, name)
        /\ activities = before.activities

\* C5 witness: such a signUp has been answered, for an activity that is
\* not the only one with registrations of that email.
C5_Witness ==
    /\ C5_Case
    /\ TheResult.status_code = 200
    /\ TheName = "Chess Club"
    /\ TheEmail \in Roster(participants, "Math Club")

\* The answer the order existence, duplicate, capacity gives to a signUp
\* on the tables acts and tbl.
C6_Expected(acts, tbl, name, email) ==
    IF name \notin Names(acts)
    THEN HTTPException(404, "Activity not found")
    ELSE IF email \in Roster(tbl, name)
    THEN HTTPException(400, "Student is already signed up")
    ELSE IF RosterCount(tbl, name) >= MaxOf(acts, name)
    THEN HTTPException(400, "Activity is full")
    ELSE Message(<<"Signed up", email, "for", name>>)

\* C6: signUp reports the first failing precondition in the order
\* existence, duplicate, capacity, and succeeds if none fails.
C6_CheckOrder ==
    Answered("signup") =>
        TheResult = C6_Expected(before.activities, before.participants, TheName, TheEmail)

\* C6 witness: a registered email asked again for an activity at capacity
\* and was told AlreadyRegistered.
C6_Witness ==
    /\ Answered("signup")
    /\ TheName \in Names(before.activities)
    /\ TheEmail \in Roster(before.participants, TheName)
    /\ RosterCount(before.participants, TheName) >= MaxOf(before.activities, TheName)
    /\ TheResult = HTTPException(400, "Student is already signed up")

\* C7: a call answered with 404 or 400 leaves every roster, every count
\* and every activity row as it was when the call began.
C7_RejectedChangesNothing ==
    (pc[SerialClient] = "done" /\ TheResult.status_code \in {400, 404}) =>
        /\ \A name \in AllNames :
               /\ Roster(participants, name) = Roster(before.participants, name)
               /\ RosterCount(participants, name) = RosterCount(before.participants, name)
        /\ activities = before.activities

\* C7 witness: a signUp was turned away as Full.
C7_Witness ==
    /\ Answered("signup")
    /\ TheResult = HTTPException(400, "Activity is full")
    /\ RosterCount(before.participants, TheName) = MaxOf(before.activities, TheName)

\* C8: unregister of a registered email succeeds and removes exactly that
\* registration; unregister of an email not registered for an existing
\* activity fails with NotRegistered, as does the unregister that follows
\* at once a successful unregister of the same pair.
C8_Unregister ==
    (Answered("unregister") /\ TheName \in Names(before.activities)) =>
        /\ TheEmail \in Roster(before.participants, TheName) =>
              /\ TheResult = Message(<<"Unregistered", TheEmail, "from", TheName>>)
              /\ Roster(participants, TheName) =
                     Roster(before.participants, TheName) \ {TheEmail}
              /\ RosterCount(participants, TheName) =
                     RosterCount(before.participants, TheName) - 1
              /\ \A name \in AllNames \ {TheName} :
                     /\ Roster(participants, name) = Roster(before.participants, name)
                     /\ RosterCount(participants, name) =
                            RosterCount(before.participants, name)
        /\ TheEmail \notin Roster(before.participants, TheName) =>
              TheResult = HTTPException(400, "Student is not signed up for this activity")
        /\ lastUnregistered = Row(TheName, TheEmail) =>
              TheResult = HTTPException(400, "Student is not signed up for this activity")

\* C8 witness: the second of two unregisters in a row of a pair that was
\* registered in another activity too has been answered.
C8_Witness ==
    /\ Answered("unregister")
    /\ lastUnregistered = Row(TheName, TheEmail)
    /\ TheResult.status_code = 400
    /\ \E name \in Names(activities) \ {TheName} : TheEmail \in Roster(participants, name)

\* The emails of activity name in the order of their INSERTs (rowid order):
\* the seeded roster, then the later signUps in the order they succeeded,
\* without the unregistered ones.
InsertionOrder(name) ==
    LET rows == SelectSeq(participants, LAMBDA r : r.activity_name = name)
    IN [k \in 1..Len(rows) |-> rows[k].email]

\* C9 as stated: the listing gives every activity's participants in
\* insertion order.
C9_ListedInInsertionOrder ==
    Answered("list") =>
        \A name \in DOMAIN listing[SerialClient] :
            listing[SerialClient][name].participants = InsertionOrder(name)

\* C9 as amended: the listing has every activity of the store, and gives
\* for each exactly its registered emails, each once, in ascending order
\* of email.
C9_ListedInEmailOrder ==
    Answered("list") =>
        /\ DOMAIN listing[SerialClient] = Names(activities)
        /\ \A name \in DOMAIN listing[SerialClient] :
             LET listed == listing[SerialClient][name].participants IN
               /\ {listed[k] : k \in 1..Len(listed)} = Roster(participants, name)
               /\ \A j, k \in 1..Len(listed) :
                      j < k => Rank(listed[j]) < Rank(listed[k])

\* C9 witness: a listing made after a signUp and an unregister, in which a
\* roster is not in the order of its INSERTs.
C9_Witness ==
    /\ Answered("list")
    /\ "alice@mergington.edu" \in Roster(participants, "Math Club")
    /\ "james@mergington.edu" \notin Roster(participants, "Math Club")
    /\ listing[SerialClient]["Math Club"].participants # InsertionOrder("Math Club")

\* The script has left the loop of main and exited.
C10_Finished ==
    /\ ipc \in {"exit_failed", "return"}
    /\ ~args.dry_run /\ args.token /\ args.repo

\* The titles of the records answered 201 (created = TRUE) or otherwise.
RECURSIVE TitlesAnswered(_, _)
TitlesAnswered(log, created) ==
    IF log = <<>> THEN <<>>
    ELSE (IF (log[1].status_code = 201) = created THEN <<log[1].data.title>> ELSE <<>>)
         \o TitlesAnswered(Tail(log), created)

\* C10: outside preview mode, with token and repository given and the file
\* loaded, the script sends one POST per record in input order whatever
\* the answers; a record counts as failed exactly if its answer is not
\* 201, created and failed add up to the number of records, and the exit
\* status is non-zero iff a record failed.
C10_PerItemFailure ==
    C10_Finished =>
        /\ Len(calls) = Len(issues)
        /\ \A k \in 1..Len(calls) :
               calls[k].data = [title |-> issues[k].title, body |-> issues[k].body,
                                labels |-> issues[k].labels]
        /\ failed_issues = TitlesAnswered(calls, FALSE)
        /\ [k \in 1..Len(created_issues) |-> created_issues[k].title] =
               TitlesAnswered(calls, TRUE)
        /\ Len(created_issues) + Len(failed_issues) = Len(issues)
        /\ (exit_status # 0) <=> (\E k \in 1..Len(calls) : calls[k].status_code # 201)

\* C10 witness: a record failed, a later one was created, and the script
\* exited with status 1.
C10_Witness ==
    /\ C10_Finished
    /\ \E j, k \in 1..Len(calls) :
           j < k /\ calls[j].status_code # 201 /\ calls[k].status_code = 201
    /\ exit_status = 1

====
